---- MODULE Spec2Model ----
(***************************************************************************)
(* A model of the Monte Carlo Tree Search engine of src/mcts.py, run on    *)
(* the Tic-Tac-Toe game of src/tictactoe.py.                               *)
(*                                                                         *)
(* The Python heap of _Node objects is the sequence `nodes` (a node is its *)
(* index), the class attribute _Node.C is the variable C, and the MCTS     *)
(* objects the program holds are the function `controllers`.  A call of    *)
(* MCTS.decide is a sequence of steps (select, expand, the plies of the    *)
(* rollout, backpropagate, the final choice) whose position is pc.         *)
(* Every draw of random.choice is a nondeterministic choice.  Floats are   *)
(* fixed-point integers: 1/10000 for a UCB score, 1/1000 for C.            *)
(***************************************************************************)
EXTENDS Integers, Sequences, FiniteSets, TLC

VARIABLES
    C,               \* _Node.C, the class attribute, in 1/1000
    nodes,           \* the heap of _Node objects
    controllers,     \* the MCTS objects, by the name of the variable holding them
    pc,              \* position in the running call of decide, "idle" between calls
    self,            \* decide: the controller of the running call
    advance,         \* decide: its argument
    sims_left,       \* decide: iterations of the loop of line 176 still to run
    node,            \* decide: local `node`
    player,          \* decide: local `player`
    state,           \* decide: local `state`
    new_state,       \* rollout: local `new_state`
    rollout_player,  \* rollout: its parameter `player`, flipped at every ply
    plies,           \* rollout: the plies played so far (history)
    rollout_value,   \* decide: local `rollout_value`
    chosen_index,    \* decide: local `chosen_index` (0-based), -1 before line 183
    call,            \* the arguments of the latest call, and the receiver as it was
    ret,             \* how the latest call ended: a value or an exception
    gpa_on_terminal, \* history: get_possible_actions was invoked on a terminal state
    n_decides        \* decide calls made so far

vars == <<C, nodes, controllers, pc, self, advance, sims_left, node, player, state,
          new_state, rollout_player, plies, rollout_value, chosen_index, call, ret,
          gpa_on_terminal, n_decides>>

-----------------------------------------------------------------------------
(* Bounds of the model *)

\* the largest simulation budget a controller is constructed with
MaxSimulations == 4

\* the number of decide calls made
MaxDecides == 3

-----------------------------------------------------------------------------
(* Python values *)

\* Optional[int]: None is the empty set, a value v is {v}
None == {}

Some(v) == {v}

TheValue(opt) == CHOOSE v \in opt : TRUE

\* Optional[_Node]: no node
NoNode == 0

\* float("inf")
Inf == 1000000000

\* sqrt(2), in 1/1000
Sqrt2 == 1414

-----------------------------------------------------------------------------
(* src/tictactoe.py: a board is its 9 cells, row after row *)

\* a line of three equal non-zero cells
Line(board, a, b, c) == board[a] = board[b] /\ board[b] = board[c] /\ board[a] # 0

GetWinner(board) ==
    CASE Line(board, 1, 2, 3) -> Some(board[1])
      [] Line(board, 4, 5, 6) -> Some(board[4])
      [] Line(board, 7, 8, 9) -> Some(board[7])
      [] Line(board, 1, 4, 7) -> Some(board[1])
      [] Line(board, 2, 5, 8) -> Some(board[2])
      [] Line(board, 3, 6, 9) -> Some(board[3])
      [] Line(board, 1, 5, 9) -> Some(board[1])
      [] Line(board, 3, 5, 7) -> Some(board[3])
      [] \A i \in 1..9 : board[i] # 0 -> Some(0)
      [] OTHER -> None

\* the empty cells in np.argwhere's order (row-major), as TicTacToeAction(x=col, y=row)
RECURSIVE ActionsFrom(_, _)
ActionsFrom(board, i) ==
    IF i > 9 THEN <<>>
    ELSE (IF board[i] = 0
          THEN <<[x |-> (i - 1) % 3, y |-> (i - 1) \div 3]>>
          ELSE <<>>) \o ActionsFrom(board, i + 1)

GetPossibleActions(board) == ActionsFrom(board, 1)

\* the cell is set to 1 whatever it held, then the board is negated
Transition(board, action) ==
    [i \in 1..9 |-> IF i = 3 * action.y + action.x + 1 THEN -1 ELSE -board[i]]

IsTerminal(board) == GetWinner(board) # None

-----------------------------------------------------------------------------
(* src/mcts.py: _Node *)

\* _Node.__init__: a node with no children and zero statistics
NewNode(parent) ==
    [parent |-> parent, children |-> <<>>, actions |-> <<>>,
     visits |-> 0, n_wins |-> 0, n_defeats |-> 0]

\* round(log(k) * 10^6) for k in 1..24
LnMicro ==
    <<0, 693147, 1098612, 1386294, 1609438, 1791759, 1945910, 2079442,
      2197225, 2302585, 2397895, 2484907, 2564949, 2639057, 2708050, 2772589,
      2833213, 2890372, 2944439, 2995732, 3044522, 3091042, 3135494, 3178054>>

\* the integer square root, by bisection of lo..hi
RECURSIVE Bisect(_, _, _)
Bisect(x, lo, hi) ==
    IF lo = hi THEN lo
    ELSE LET mid == (lo + hi + 1) \div 2
         IN IF mid * mid <= x THEN Bisect(x, mid, hi) ELSE Bisect(x, lo, mid - 1)

ISqrt(x) == Bisect(x, 0, 46340)

\* _Node.value, in 1/10000
Value(n) ==
    IF n.visits = 0 THEN 0
    ELSE ((n.n_wins - n.n_defeats) * 10000) \div n.visits

\* _Node.ucb, in 1/10000: the trade-off constant read is the class attribute c.
\* The order of two scores is that of the floats for parent visits up to 14.
Ucb(ns, id, c) ==
    IF ns[id].visits = 0 THEN Inf
    ELSE Value(ns[id])
         + (c * ISqrt((LnMicro[ns[ns[id].parent].visits] * 100) \div ns[id].visits))
           \div 1000

IsLeaf(n) == Len(n.children) = 0

\* a maximum that keeps the last of the largest keys (>= in place of >)
LastMaxIndex(keys) ==
    CHOOSE i \in 1..Len(keys) :
        /\ \A j \in 1..Len(keys) : keys[j] <= keys[i]
        /\ \A j \in (i + 1)..Len(keys) : keys[j] < keys[i]

\* Python's max(iterable, key=...): the first element whose key is the largest
FirstMaxIndex(keys) ==
    CHOOSE i \in 1..Len(keys) :
        /\ \A j \in 1..Len(keys) : keys[j] <= keys[i]
        /\ \A j \in 1..(i - 1) : keys[j] < keys[i]

\* the keys of line 67: the UCB score of every child
UcbKeys(ns, id, c) == [i \in 1..Len(ns[id].children) |-> Ucb(ns, ns[id].children[i], c)]

\* _Node.select_child: down to a leaf, the state and the player threaded along
\* a selection that does not descend: the node it is called on, leaf or not
SelectChildStaysAtNode(ns, id, p, st, c) == [node |-> id, player |-> p, state |-> st]

RECURSIVE SelectChild(_, _, _, _, _)
SelectChild(ns, id, p, st, c) ==
    IF IsLeaf(ns[id]) THEN [node |-> id, player |-> p, state |-> st]
    ELSE LET best == FirstMaxIndex(UcbKeys(ns, id, c))
         IN SelectChild(ns, ns[id].children[best], -p,
                        Transition(st, ns[id].actions[best]), c)

\* expand without the test of line 77
ExpandNeverReturnsSelf(st) == FALSE

\* _Node.expand does nothing on a terminal state (line 77)
ExpandReturnsSelf(st) == GetWinner(st) # None

\* _Node.expand, lines 80-81: the heap once the node got its actions and children
Expanded(ns, id, actions) ==
    [ns EXCEPT ![id].actions = actions,
               ![id].children = [i \in 1..Len(actions) |-> Len(ns) + i]]
    \o [i \in 1..Len(actions) |-> NewNode(id)]

\* the condition of rollout's loop (line 98)
RolloutContinues(st) == GetWinner(st) = None

\* a return value that is the winner as the terminal state names it
RolloutReturnsWinner(winner, p) == winner

\* rollout's return value (line 103)
RolloutReturn(winner, p) == winner * p

\* line 115 moved below the test of line 125: the root counts no visit
BackpropagateNodeVisitBelowTest(n, rv, ptp) ==
    [n EXCEPT !.visits = IF n.parent # NoNode THEN @ + 1 ELSE @,
              !.n_wins = IF rv # ptp THEN @ + 1 ELSE @,
              !.n_defeats = IF rv = ptp /\ rv # 0 THEN @ + 1 ELSE @]

\* statistics that count a defeat for every decisive rollout, next to the win
BackpropagateNodeBothCounters(n, rv, ptp) ==
    [n EXCEPT !.visits = @ + 1,
              !.n_wins = IF rv # ptp THEN @ + 1 ELSE @,
              !.n_defeats = IF rv # 0 THEN @ + 1 ELSE @]

\* _Node.backpropagate, lines 115-122: the statistics of one node
BackpropagateNode(n, rv, ptp) ==
    [n EXCEPT !.visits = @ + 1,
              !.n_wins = IF rv # ptp THEN @ + 1 ELSE @,
              !.n_defeats = IF rv = ptp /\ rv # 0 THEN @ + 1 ELSE @]

\* a walk up that ends at the node it starts from
StopsAtOnce(n) == TRUE

\* the end of the walk up (line 125)
StopsAt(n) == n.parent = NoNode

\* _Node.backpropagate: the node, then its parent with the player negated
RECURSIVE Backpropagate(_, _, _, _)
Backpropagate(ns, id, rv, ptp) ==
    LET updated == [ns EXCEPT ![id] = BackpropagateNode(@, rv, ptp)]
    IN IF StopsAt(ns[id]) THEN updated
       ELSE Backpropagate(updated, ns[id].parent, rv, -ptp)

-----------------------------------------------------------------------------
(* The inputs: the boards a controller is constructed on (1 is a piece of  *)
(* the player about to move), and the other arguments of MCTS.__init__     *)

\* the player about to move already has the top row: a terminal state
BoardWon ==
    <<  1,  1,  1,
       -1, -1,  0,
        0,  0,  0 >>

\* two empty cells: the playouts end in a draw or in a loss of the player to move
BoardTwoLeft ==
    <<  1, -1,  1,
        1, -1, -1,
       -1,  0,  0 >>

\* three empty cells: the playouts end in a win of the player to move or in a draw
BoardThreeLeft ==
    <<  1, -1,  1,
       -1,  1,  0,
        0,  0, -1 >>

InitialBoards == {BoardWon, BoardTwoLeft, BoardThreeLeft}

TradeOffs == {Sqrt2}

Budgets == (-1)..MaxSimulations

Players == {-1, 0, 1, 2}

\* the variables of the program that hold a controller (src/main.py, line 14)
ControllerNames == {"mcts_player"}

-----------------------------------------------------------------------------
(* src/mcts.py: MCTS *)

\* a check that lets 0 through: abs(player) > 1 in place of line 159
ValidPlayerLoose(p) == p >= -1 /\ p <= 1

\* the check of line 159
ValidPlayer(p) == p \in {-1, 1}

NoState == <<>>

Returned(value) == [exc |-> "", value |-> value]

Raised(exc) == [exc |-> exc, value |-> <<>>]

Init ==
    /\ C = Sqrt2
    /\ nodes = <<>>
    /\ controllers = <<>>
    /\ pc = "idle"
    /\ self = ""
    /\ advance = FALSE
    /\ sims_left = 0
    /\ node = NoNode
    /\ player = 0
    /\ state = NoState
    /\ new_state = NoState
    /\ rollout_player = 0
    /\ plies = 0
    /\ rollout_value = 0
    /\ chosen_index = -1
    /\ call = [op |-> "none"]
    /\ ret = Returned(<<>>)
    /\ gpa_on_terminal = FALSE
    /\ n_decides = 0

\* MCTS.__init__.  The class attribute is set first (line 154); the _Node of line 155
\* is garbage when line 160 raises, and no object is bound to the name then.
Construct(name, st, c, n, p) ==
    /\ pc = "idle"
    /\ name \notin DOMAIN controllers
    /\ C' = c
    /\ call' = [op |-> "construct", name |-> name, state |-> st,
                trade_off_constant |-> c, n_simulations |-> n, player |-> p]
    /\ IF ValidPlayer(p)
       THEN /\ nodes' = Append(nodes, NewNode(NoNode))
            /\ controllers' = controllers @@
                   (name :> [root |-> Len(nodes) + 1, root_state |-> st,
                             n_simulations |-> n, player |-> p])
            /\ ret' = Returned(<<>>)
       ELSE /\ ret' = Raised("ValueError")
            /\ UNCHANGED <<nodes, controllers>>
    /\ UNCHANGED <<pc, self, advance, sims_left, node, player, state, new_state,
                   rollout_player, plies, rollout_value, chosen_index,
                   gpa_on_terminal, n_decides>>

\* a loop that runs one iteration too few: range(1, n)
RangeLenOneShort(n) == IF n > 1 THEN n - 1 ELSE 0

\* the number of iterations of range(n)
RangeLen(n) == IF n > 0 THEN n ELSE 0

\* where decide goes once `left` iterations of its loop remain
LoopOrChoose(left) == IF left > 0 THEN "select" ELSE "choose"

\* MCTS.decide, line 174 and the entry of the loop of line 176
Decide(name, adv) ==
    /\ pc = "idle"
    /\ name \in DOMAIN controllers
    /\ n_decides < MaxDecides
    /\ n_decides' = n_decides + 1
    /\ self' = name
    /\ advance' = adv
    /\ node' = controllers[name].root
    /\ sims_left' = RangeLen(controllers[name].n_simulations)
    /\ pc' = LoopOrChoose(RangeLen(controllers[name].n_simulations))
    /\ chosen_index' = -1
    /\ call' = [op |-> "decide", name |-> name, advance |-> adv,
                root |-> controllers[name].root,
                root_visits |-> nodes[controllers[name].root].visits,
                root_state |-> controllers[name].root_state,
                player |-> controllers[name].player,
                n_simulations |-> controllers[name].n_simulations]
    /\ ret' = Returned(<<>>)
    /\ UNCHANGED <<C, nodes, controllers, player, state, new_state, rollout_player,
                   plies, rollout_value, gpa_on_terminal>>

\* line 177
Select ==
    /\ pc = "select"
    /\ LET r == SelectChild(nodes, node, controllers[self].player,
                            controllers[self].root_state, C)
       IN /\ node' = r.node
          /\ player' = r.player
          /\ state' = r.state
    /\ pc' = "expand"
    /\ UNCHANGED <<C, nodes, controllers, self, advance, sims_left, new_state,
                   rollout_player, plies, rollout_value, chosen_index, call, ret,
                   gpa_on_terminal, n_decides>>

\* line 178, and the entry of rollout (lines 179 and 96).  A board that is not
\* terminal has an empty cell, so random.choice is never given an empty list.
Expand ==
    /\ pc = "expand"
    /\ IF ExpandReturnsSelf(state)
       THEN /\ new_state' = state
            /\ rollout_player' = player
            /\ UNCHANGED <<nodes, node, player, state, gpa_on_terminal>>
       ELSE LET actions == GetPossibleActions(state)
            IN /\ gpa_on_terminal' = (gpa_on_terminal \/ IsTerminal(state))
               /\ nodes' = Expanded(nodes, node, actions)
               /\ \E i \in 1..Len(actions) :
                      /\ node' = Len(nodes) + i
                      /\ state' = Transition(state, actions[i])
                      /\ new_state' = Transition(state, actions[i])
               /\ player' = -player
               /\ rollout_player' = -player
    /\ plies' = 0
    /\ pc' = "rollout"
    /\ UNCHANGED <<C, controllers, self, advance, sims_left, rollout_value,
                   chosen_index, call, ret, n_decides>>

\* one iteration of rollout's loop (lines 98-101)
RolloutPly ==
    /\ pc = "rollout"
    /\ RolloutContinues(new_state)
    /\ gpa_on_terminal' = (gpa_on_terminal \/ IsTerminal(new_state))
    /\ \E i \in 1..Len(GetPossibleActions(new_state)) :
           new_state' = Transition(new_state, GetPossibleActions(new_state)[i])
    /\ rollout_player' = -rollout_player
    /\ plies' = plies + 1
    /\ UNCHANGED <<C, nodes, controllers, pc, self, advance, sims_left, node, player,
                   state, rollout_value, chosen_index, call, ret, n_decides>>

\* the end of rollout (line 103)
RolloutEnd ==
    /\ pc = "rollout"
    /\ ~RolloutContinues(new_state)
    /\ rollout_value' = RolloutReturn(TheValue(GetWinner(new_state)), rollout_player)
    /\ pc' = "backpropagate"
    /\ UNCHANGED <<C, nodes, controllers, self, advance, sims_left, node, player,
                   state, new_state, rollout_player, plies, chosen_index, call, ret,
                   gpa_on_terminal, n_decides>>

\* lines 180-181 and the next iteration.  The locals the next iteration overwrites
\* before it reads them are cleared.
BackpropagateStep ==
    /\ pc = "backpropagate"
    /\ nodes' = Backpropagate(nodes, node, rollout_value, player)
    /\ node' = controllers[self].root
    /\ sims_left' = sims_left - 1
    /\ pc' = LoopOrChoose(sims_left - 1)
    /\ player' = 0
    /\ state' = NoState
    /\ new_state' = NoState
    /\ rollout_player' = 0
    /\ plies' = 0
    /\ rollout_value' = 0
    /\ UNCHANGED <<C, controllers, self, advance, chosen_index, call, ret,
                   gpa_on_terminal, n_decides>>

\* the keys of line 183: the visit count of every child
VisitKeys(ns, id) == [i \in 1..Len(ns[id].children) |-> ns[ns[id].children[i]].visits]

\* line 183: the 0-based index
ChosenIndex(ns, id) == FirstMaxIndex(VisitKeys(ns, id)) - 1

\* Python's list[i] for i >= 0 raises IndexError past the end
InRange(list, i) == i < Len(list)

Item(list, i) == list[i + 1]

\* an advance that starts the new root afresh, its statistics and subtree dropped
AdvancedHeapFreshRoot(ns, new_root) == [ns EXCEPT ![new_root] = NewNode(NoNode)]

\* the heap after line 186: self.root is bound to the child and no node is written,
\* the parent of the child included
AdvancedHeap(ns, new_root) == ns

\* lines 183-192.  max() of no children raises ValueError.  With advance, self.root
\* is assigned at line 186 and read again at lines 188 and 192.
Choose ==
    /\ pc = "choose"
    /\ LET ctl == controllers[self]
           root == ctl.root
       IN IF Len(nodes[root].children) = 0
          THEN /\ ret' = Raised("ValueError")
               /\ UNCHANGED <<nodes, controllers, chosen_index>>
          ELSE LET idx == ChosenIndex(nodes, root)
                   new_root == Item(nodes[root].children, idx)
               IN /\ chosen_index' = idx
                  /\ IF ~advance
                     THEN /\ ret' = Returned(<<Item(nodes[root].actions, idx)>>)
                          /\ UNCHANGED <<nodes, controllers>>
                     ELSE IF ~InRange(nodes[new_root].actions, idx)
                     THEN /\ nodes' = AdvancedHeap(nodes, new_root)
                          /\ controllers' = [controllers EXCEPT ![self].root = new_root]
                          /\ ret' = Raised("IndexError")
                     ELSE /\ nodes' = AdvancedHeap(nodes, new_root)
                          /\ controllers' =
                                 [controllers EXCEPT
                                     ![self].root = new_root,
                                     ![self].root_state =
                                         Transition(@, Item(nodes[new_root].actions, idx)),
                                     ![self].player = -@]
                          /\ ret' = Returned(<<Item(nodes[new_root].actions, idx)>>)
    /\ pc' = "idle"
    /\ self' = ""
    /\ advance' = FALSE
    /\ node' = NoNode
    /\ UNCHANGED <<C, sims_left, player, state, new_state, rollout_player,
                   plies, rollout_value, call, gpa_on_terminal, n_decides>>

Next ==
    \/ \E name \in ControllerNames, st \in InitialBoards, c \in TradeOffs,
          n \in Budgets, p \in Players : Construct(name, st, c, n, p)
    \/ \E name \in ControllerNames, adv \in BOOLEAN : Decide(name, adv)
    \/ Select
    \/ Expand
    \/ RolloutPly
    \/ RolloutEnd
    \/ BackpropagateStep
    \/ Choose

Spec == Init /\ [][Next]_vars

-----------------------------------------------------------------------------
(* Two controllers in one process, each constructed with a trade-off constant *)
(* of its own, on the board with three empty cells.  Calls do not overlap:    *)
(* a construction or a decide starts when no decide is running.              *)

\* the trade_off_constant argument of the construction of each controller
TradeOffOf == ("mcts_player" :> 0) @@ ("mcts_opponent" :> Sqrt2)

\* the n_simulations argument of these constructions
SmallBudgets == {1, 2}

\* the player argument of these constructions; 0 makes line 160 raise
PlayersOrZero == {0, 1}

Next19 ==
    \/ \E name \in DOMAIN TradeOffOf, n \in SmallBudgets, p \in PlayersOrZero :
          Construct(name, BoardThreeLeft, TradeOffOf[name], n, p)
    \/ \E name \in DOMAIN TradeOffOf, adv \in BOOLEAN : Decide(name, adv)
    \/ Select
    \/ Expand
    \/ RolloutPly
    \/ RolloutEnd
    \/ BackpropagateStep
    \/ Choose

Spec19 == Init /\ [][Next19]_vars

-----------------------------------------------------------------------------
(* What the properties below speak of *)

\* a call of decide has ended and nothing was called since
DecideEnded == pc = "idle" /\ call.op = "decide"

\* the child of node id with the most visits, the first of them (0-based index)
MostVisitedIndex(ns, id) ==
    (CHOOSE i \in 1..Len(ns[id].children) :
        /\ \A j \in 1..Len(ns[id].children) :
               ns[ns[id].children[j]].visits <= ns[ns[id].children[i]].visits
        /\ \A j \in 1..(i - 1) :
               ns[ns[id].children[j]].visits < ns[ns[id].children[i]].visits) - 1

\* the nodes from id up to, and without, the node top
RECURSIVE ChainBelow(_, _, _)
ChainBelow(ns, id, top) ==
    IF id = top \/ id = NoNode THEN {}
    ELSE {id} \cup ChainBelow(ns, ns[id].parent, top)

\* the nodes a backpropagation started at id walks through
RECURSIVE ChainUp(_, _)
ChainUp(ns, id) ==
    IF id = NoNode THEN {} ELSE {id} \cup ChainUp(ns, ns[id].parent)

\* the node r and the nodes below it
Subtree(ns, r) == {id \in 1..Len(ns) : r \in ChainUp(ns, id)}

\* the sum of the visits of the nodes of the list ids, from its place i on
RECURSIVE SumVisits(_, _, _)
SumVisits(ns, ids, i) ==
    IF i > Len(ids) THEN 0 ELSE ns[ids[i]].visits + SumVisits(ns, ids, i + 1)

\* the number of parent links from node id up to its ancestor top
Distance(ns, id, top) == Cardinality(ChainBelow(ns, id, top))

\* (-1)^k
Sign(k) == IF k % 2 = 0 THEN 1 ELSE -1

\* the place of node id among the children of its parent
IndexInParent(ns, id) ==
    CHOOSE i \in 1..Len(ns[ns[id].parent].children) : ns[ns[id].parent].children[i] = id

-----------------------------------------------------------------------------
\* C1: a call of decide on a root state that is not terminal, with a budget of at
\* least one simulation and either value of advance, returns the action that leads
\* from the root of the start of the call to its child with the most visits.
C1_DecideReturnsActionToMostVisited ==
    (DecideEnded /\ ~IsTerminal(call.root_state) /\ call.n_simulations > 0)
    => ret = Returned(<<Item(nodes[call.root].actions,
                             MostVisitedIndex(nodes, call.root))>>)

\* C2: after decide with advance=True on a root state that is not terminal, the root
\* is the most visited child, root_state is the former root_state transitioned by
\* the action leading to that child, and the action list of an expanded root is
\* the list of the legal actions of root_state.
C2_AdvanceMovesRootAndState ==
    (DecideEnded /\ call.advance /\ ~IsTerminal(call.root_state)
        /\ call.n_simulations > 0)
    => LET best == MostVisitedIndex(nodes, call.root)
           ctl == controllers[call.name]
       IN /\ ctl.root = Item(nodes[call.root].children, best)
          /\ ctl.root_state =
                 Transition(call.root_state, Item(nodes[call.root].actions, best))
          /\ ~IsLeaf(nodes[ctl.root])
                 => nodes[ctl.root].actions = GetPossibleActions(ctl.root_state)

\* C3: decide on a controller whose root state is terminal returns no action, raises
\* nothing and gives the root no child.
C3_TerminalRootShortCircuits ==
    (DecideEnded /\ IsTerminal(call.root_state) /\ call.n_simulations > 0)
    => /\ ret = Returned(<<>>)
       /\ IsLeaf(nodes[call.root])

\* C4: a construction with a simulation budget of 0 or less raises an error and
\* binds no controller.
C4_NonPositiveBudgetRejected ==
    (call.op = "construct" /\ call.n_simulations <= 0)
    => /\ ret.exc # ""
       /\ call.name \notin DOMAIN controllers

\* C5: a construction with a player other than -1 and 1 raises ValueError and binds
\* no controller; with a player of -1 or 1 it binds a controller of that very
\* player whose tree is one node with zero visits, wins and defeats, no action,
\* no child and no parent.
C5_PlayerCheckedAtConstruction ==
    call.op = "construct"
    => IF call.player \notin {-1, 1}
       THEN /\ ret = Raised("ValueError")
            /\ call.name \notin DOMAIN controllers
       ELSE /\ ret = Returned(<<>>)
            /\ call.name \in DOMAIN controllers
            /\ controllers[call.name].player = call.player
            /\ controllers[call.name].root_state = call.state
            /\ nodes[controllers[call.name].root] = NewNode(NoNode)
            /\ \A id \in 1..Len(nodes) :
                   nodes[id].parent # controllers[call.name].root

\* C5, its case: a construction with player = 2 has raised ValueError
C5_Witness ==
    call.op = "construct" /\ call.player = 2 /\ ret = Raised("ValueError")

\* C6: the backpropagation of a rollout value of 0 adds one visit, no win and no
\* defeat to every node on the way from the node up.
C6_DrawCountsNeither ==
    [][(pc = "backpropagate" /\ rollout_value = 0)
       => \A id \in ChainUp(nodes, node) :
              /\ nodes'[id].visits = nodes[id].visits + 1
              /\ nodes'[id].n_wins = nodes[id].n_wins
              /\ nodes'[id].n_defeats = nodes[id].n_defeats]_vars

\* C7: the value rollout returns is that of the playout for the player about to move
\* at the state rollout was called on: the winner reported at the terminal state,
\* which is relative to the player about to move there, negated once per ply.
C7_RolloutValueIsRelativeToOrigin ==
    pc = "backpropagate"
    => rollout_value = TheValue(GetWinner(new_state)) * Sign(plies)

\* C8: for every node, visits, wins and defeats are non-negative, the difference of
\* wins and defeats is within the visits either way, so that value is in [-1, 1],
\* and value is 0 when visits is 0.
C8_ValueInRange ==
    \A id \in 1..Len(nodes) :
        /\ nodes[id].visits >= 0
        /\ nodes[id].n_wins >= 0
        /\ nodes[id].n_defeats >= 0
        /\ nodes[id].n_wins - nodes[id].n_defeats <= nodes[id].visits
        /\ nodes[id].n_defeats - nodes[id].n_wins <= nodes[id].visits
        /\ Value(nodes[id]) >= -10000
        /\ Value(nodes[id]) <= 10000
        /\ nodes[id].visits = 0 => Value(nodes[id]) = 0

\* C8, its case: backpropagation has brought one node to the value -1, another to
\* the value 1 after two visits, and a third has wins and defeats
C8_Witness ==
    /\ \E id \in 1..Len(nodes) : Value(nodes[id]) = -10000
    /\ \E id \in 1..Len(nodes) : nodes[id].visits >= 2 /\ Value(nodes[id]) = 10000
    /\ \E id \in 1..Len(nodes) : nodes[id].n_wins >= 1 /\ nodes[id].n_defeats >= 1

\* C9: get_possible_actions is never invoked on a terminal state.
C9_NoActionsOfTerminalState == ~gpa_on_terminal

\* C9, its case: expand was called on a leaf below the root whose state is terminal,
\* returned it, and rollout starts on that state
C9_Witness ==
    /\ pc = "rollout"
    /\ plies = 0
    /\ IsTerminal(state)
    /\ new_state = state
    /\ IsLeaf(nodes[node])
    /\ nodes[node].parent # NoNode
    /\ ~gpa_on_terminal

C11_BudgetSimulationsFromRoot ==
    /\ pc = "select" => node = controllers[self].root /\ node = call.root
    /\ (call.op = "decide" /\ pc \in {"choose", "idle"}
            /\ ~IsTerminal(call.root_state) /\ call.n_simulations > 0)
       => nodes[call.root].visits = call.root_visits + call.n_simulations

\* C11, its case: the simulations of a call on a root that had visits already are
\* done and the move is about to be chosen
C11_Witness ==
    /\ pc = "choose"
    /\ ~IsTerminal(call.root_state)
    /\ call.root_visits > 0
    /\ call.n_simulations > 1
    /\ nodes[call.root].visits = call.root_visits + call.n_simulations

\* C12: the step of decide that advances the root makes the chosen child the root
\* and leaves the visits, wins, defeats, actions and children of that child and
\* of every node below it as they were, and creates and removes no node.
C12_AdvanceKeepsSubtree ==
    [][(pc = "choose" /\ advance /\ ~IsLeaf(nodes[controllers[self].root]))
       => /\ controllers'[self].root =
                 Item(nodes[controllers[self].root].children, chosen_index')
          /\ Len(nodes') = Len(nodes)
          /\ \A id \in Subtree(nodes, controllers'[self].root) :
                 /\ nodes'[id].visits = nodes[id].visits
                 /\ nodes'[id].n_wins = nodes[id].n_wins
                 /\ nodes'[id].n_defeats = nodes[id].n_defeats
                 /\ nodes'[id].actions = nodes[id].actions
                 /\ nodes'[id].children = nodes[id].children]_vars

\* C12, its case: decide has advanced to a child that has visits, wins and visited
\* children of its own
C12_Witness ==
    /\ DecideEnded
    /\ call.advance
    /\ controllers[call.name].root # call.root
    /\ nodes[controllers[call.name].root].parent = call.root
    /\ nodes[controllers[call.name].root].visits >= 2
    /\ nodes[controllers[call.name].root].n_wins >= 1
    /\ \E id \in 1..Len(nodes) :
           nodes[id].parent = controllers[call.name].root /\ nodes[id].visits >= 1

\* C13: the root of every controller has no parent, so that a backpropagation stops
\* at it and no node above it is updated.
C13_RootHasNoParent ==
    \A name \in DOMAIN controllers : nodes[controllers[name].root].parent = NoNode

\* C14: in every node, no child has two visits while another child has none.
\* The nodes are all those the program holds: a former root stays linked from the
\* current root through parent.
C14_EveryChildOnceBeforeTwice ==
    \A id \in 1..Len(nodes) :
        (\E i \in 1..Len(nodes[id].children) : nodes[nodes[id].children[i]].visits >= 2)
        => \A i \in 1..Len(nodes[id].children) : nodes[nodes[id].children[i]].visits >= 1

\* C15: the visits of every node are at least the sum of the visits of its
\* children; a visited child has a parent with at least one visit and at least as
\* many visits as the child, so the logarithm UCB takes of them is defined and
\* not negative.
C15_VisitsCoverChildren ==
    \A id \in 1..Len(nodes) :
        /\ nodes[id].visits >= SumVisits(nodes, nodes[id].children, 1)
        /\ (nodes[id].parent # NoNode /\ nodes[id].visits > 0)
           => /\ nodes[nodes[id].parent].visits >= 1
              /\ nodes[nodes[id].parent].visits >= nodes[id].visits
              /\ LnMicro[nodes[nodes[id].parent].visits] >= 0

\* C15, its case: selection is about to score the children of a root of which two
\* are visited, one of them with visited children of its own
C15_Witness ==
    /\ pc = "select"
    /\ \E i, j \in 1..Len(nodes[node].children) :
           /\ i # j
           /\ nodes[nodes[node].children[i]].visits >= 2
           /\ nodes[nodes[node].children[j]].visits >= 1
           /\ SumVisits(nodes, nodes[nodes[node].children[i]].children, 1) >= 1

\* C16: one backpropagation adds exactly one visit to the node it starts from and
\* to each of its ancestors along the parent links, adds one to at most one of the
\* two counters n_wins and n_defeats of each of them, and changes neither the
\* statistics of any other node nor the children, actions or parent of any node.
C16_BackpropagateFrame ==
    [][pc = "backpropagate"
       => /\ Len(nodes') = Len(nodes)
          /\ \A id \in 1..Len(nodes) :
                 /\ nodes'[id].children = nodes[id].children
                 /\ nodes'[id].actions = nodes[id].actions
                 /\ nodes'[id].parent = nodes[id].parent
                 /\ IF id \in ChainUp(nodes, node)
                    THEN /\ nodes'[id].visits = nodes[id].visits + 1
                         /\ nodes'[id].n_wins - nodes[id].n_wins \in {0, 1}
                         /\ nodes'[id].n_defeats - nodes[id].n_defeats \in {0, 1}
                         /\ (nodes'[id].n_wins - nodes[id].n_wins)
                               + (nodes'[id].n_defeats - nodes[id].n_defeats) <= 1
                    ELSE nodes'[id] = nodes[id]]_vars

\* C16, its case: a backpropagation of a decisive rollout is about to start two
\* levels below a root, with visited nodes outside the walk
C16_Witness ==
    /\ pc = "backpropagate"
    /\ rollout_value # 0
    /\ nodes[node].parent # NoNode
    /\ nodes[nodes[node].parent].parent # NoNode
    /\ \E id \in 1..Len(nodes) :
           id \notin ChainUp(nodes, node) /\ nodes[id].visits >= 1 /\ nodes[id].n_wins >= 1

\* the result of the rollout that ended in new_state after plies moves, for the
\* player about to move at the node the rollout started from: 1 a win, -1 a loss
OutcomeForMoverAtNode == TheValue(GetWinner(new_state)) * Sign(plies)

\* C17: the backpropagation of a decisive rollout adds one to n_wins of a node
\* exactly when the rollout was won by the player who moved into the node, and one
\* to n_defeats exactly when it was won by the player about to move at the node,
\* the two players alternating at each step up the parent links.
C17_DecisiveRolloutAttribution ==
    [][(pc = "backpropagate" /\ rollout_value # 0)
       => \A id \in ChainUp(nodes, node) :
              LET outcome == OutcomeForMoverAtNode * Sign(Distance(nodes, node, id))
              IN /\ (nodes'[id].n_wins = nodes[id].n_wins + 1) <=> (outcome = -1)
                 /\ (nodes'[id].n_wins = nodes[id].n_wins) <=> (outcome = 1)
                 /\ (nodes'[id].n_defeats = nodes[id].n_defeats + 1) <=> (outcome = 1)
                 /\ (nodes'[id].n_defeats = nodes[id].n_defeats) <=> (outcome = -1)]_vars

\* C17, its case: a rollout of an odd number of moves, started two levels below a
\* root by a controller whose player is -1, was decisive and is to be backpropagated
C17_Witness ==
    /\ pc = "backpropagate"
    /\ rollout_value # 0
    /\ plies % 2 = 1
    /\ controllers[self].player = -1
    /\ nodes[node].parent # NoNode
    /\ nodes[nodes[node].parent].parent # NoNode

\* C18: expand is only called on a node without children, the actions and children
\* of a node that has children never change again, and every node has as many
\* children as actions, before and after every step.
C18_ExpandOnlyLeavesOnce ==
    [][/\ (pc = "expand" => IsLeaf(nodes[node]))
       /\ (pc' = "expand" => IsLeaf(nodes'[node']))
       /\ \A id \in 1..Len(nodes) :
              /\ Len(nodes[id].children) = Len(nodes[id].actions)
              /\ ~IsLeaf(nodes[id])
                 => /\ nodes'[id].children = nodes[id].children
                    /\ nodes'[id].actions = nodes[id].actions
       /\ \A id \in 1..Len(nodes') :
              Len(nodes'[id].children) = Len(nodes'[id].actions)]_vars

\* C18, its case: expand is called on a leaf below an expanded root and will give
\* it children, while a terminal leaf has been handed to expand twice
C18_Witness ==
    /\ pc = "expand"
    /\ ~ExpandReturnsSelf(state)
    /\ nodes[node].parent # NoNode
    /\ \E id \in 1..Len(nodes) : IsLeaf(nodes[id]) /\ nodes[id].visits >= 2

\* C19: whenever a controller's selection scores a visited child with UCB, the
\* constant it reads is the trade_off_constant passed at the construction of that
\* controller, whatever other constructions, ended or raised, came in between.
C19_ConstantIsTheControllersOwn ==
    (/\ pc = "select"
     /\ \E i \in 1..Len(nodes[node].children) : nodes[nodes[node].children[i]].visits > 0)
    => C = TradeOffOf[self]

====
